---- MODULE Spec2Model ----
(***************************************************************************)
(* Model of the chiTCP per-connection protocol engine                      *)
(* (src/src/chitcpd/tcp.c): the per-state event handlers, the shared       *)
(* handle_PACKET_ARRIVAL routine and the packet builders, driven by a      *)
(* serial worker that consumes the connection's event queue.               *)
(*                                                                         *)
(* A 32-bit unsigned value (uint32_t) is the pair <<hi, lo>> of its two    *)
(* 16-bit halves, so that arithmetic keeps its width (mod 2^32).           *)
(***************************************************************************)
EXTENDS Integers, Sequences, FiniteSets, TLC

\* ------------------------------------------------------------------------
\* Bounds of the model
\* ------------------------------------------------------------------------
MaxPending == 1
MaxEvents == 1

\* ------------------------------------------------------------------------
\* uint32_t / uint16_t arithmetic
\* ------------------------------------------------------------------------
Half == 256 * 256

\* a small natural number as a uint32_t
ToU32(n) == <<n \div Half, n % Half>>

\* x + 1 on uint32_t
Add1(x) ==
    IF x[2] = Half - 1 THEN <<(x[1] + 1) % Half, 0>> ELSE <<x[1], x[2] + 1>>

\* the C operators < and <= on uint32_t operands
ULt(a, b) == a[1] < b[1] \/ (a[1] = b[1] /\ a[2] < b[2])
ULe(a, b) == a = b \/ ULt(a, b)

\* byte swap of a 16-bit value
Swap16(h) == (h % 256) * 256 + (h \div 256)

\* host <-> network byte order (little-endian host)
Htonl(x) == <<Swap16(x[2]), Swap16(x[1])>>
Ntohl(x) == <<Swap16(x[2]), Swap16(x[1])>>
Htons(w) == Swap16(w % Half)
Ntohs(w) == Swap16(w % Half)

\* ------------------------------------------------------------------------
\* States, events, segments
\* ------------------------------------------------------------------------
States ==
    {"CLOSED", "LISTEN", "SYN_SENT", "SYN_RCVD", "ESTABLISHED", "FIN_WAIT_1",
     "FIN_WAIT_2", "CLOSE_WAIT", "CLOSING", "LAST_ACK", "TIME_WAIT"}

AppEvents ==
    {"APPLICATION_CONNECT", "APPLICATION_SEND", "APPLICATION_RECEIVE",
     "APPLICATION_CLOSE", "TIMEOUT_RTX", "TIMEOUT_PST", "CLEANUP"}

Events == AppEvents \cup {"PACKET_ARRIVAL"}

NoPkt == [none |-> TRUE]

\* chitcpd_tcp_packet_create(entry, packet, NULL, 0): a header with every
\* flag and field zero and no payload; seq, ack_seq and win are held in
\* network byte order
EmptyPacket ==
    [syn |-> 0, ack |-> 0, fin |-> 0, seq |-> <<0, 0>>, ack_seq |-> <<0, 0>>,
     win |-> 0, len |-> 0]

\* accessors of a received or built packet, in host byte order
SEG_SEQ(p) == Ntohl(p.seq)
SEG_ACK(p) == Ntohl(p.ack_seq)
SEG_WND(p) == Ntohs(p.win)

\* rand() % 1000 + 1
RandRange == 1000
RandISS(r) == ToU32((r % RandRange) + 1)

\* sampled results of rand(): the smallest and the largest ISS
RandVals == {0, 999}

\* sampled fields of arriving segments (host byte order)
SeqVals == {ToU32(50), <<Half - 1, Half - 1>>}
AckVals == {ToU32(1), ToU32(2), ToU32(1001)}
WndVals == {5}
\* sequence number of the sampled segments that carry no SYN
AckSeq == <<Half - 1, Half - 1>>

\* a segment as the peer puts it on the wire
WireSegment(syn, ack, seq, ackno, wnd) ==
    [EmptyPacket EXCEPT !.syn = syn, !.ack = ack, !.seq = Htonl(seq),
                        !.ack_seq = Htonl(ackno), !.win = Htons(wnd)]

\* segments the peer may send: a SYN, a SYN-ACK, a bare ACK, and a segment
\* with no flag (the acknowledgment field of a segment without ACK is zero)
ArrivingSegments ==
    {WireSegment(1, 0, s, <<0, 0>>, w) : s \in SeqVals, w \in WndVals}
    \cup
    {WireSegment(1, 1, s, a, w) : s \in SeqVals, a \in AckVals, w \in WndVals}
    \cup
    {WireSegment(0, 1, AckSeq, a, w) : a \in AckVals, w \in WndVals}
    \cup
    {WireSegment(0, 0, AckSeq, <<0, 0>>, w) : w \in WndVals}

\* ------------------------------------------------------------------------
\* Collaborators of the engine: byte buffers, packet transport, state update
\* ------------------------------------------------------------------------
\* TCP_BUFFER_SIZE: capacity of the send and receive buffers
BufferSize == 4096

\* sampled sizes of what one socket_send call puts in the send buffer
SendSizes == {10}

\* circular_buffer_available(buf): free space of a byte buffer
circular_buffer_available(buf) == buf.capacity - buf.used

\* chitcpd_send_tcp_packet(si, entry, packet): hand a segment to the network
chitcpd_send_tcp_packet(c, packet) == [c EXCEPT !.sent = Append(@, packet)]

\* chitcpd_update_tcp_state(si, entry, newstate)
chitcpd_update_tcp_state(c, newstate) ==
    [c EXCEPT !.state = newstate, !.updates = Append(@, newstate)]

\* ------------------------------------------------------------------------
\* State of one connection
\* ------------------------------------------------------------------------
VARIABLES
    tcp_state,       \* entry->tcp_state
    tcp_data,        \* entry->socket_state.active.tcp_data
    pending_events,  \* the connection's event queue, consumed by the worker
    sent,            \* segments emitted by the last handler call
    updates,         \* states set by the last handler call, in order
    ret,             \* return value of the last handler call
    fault,           \* the process has dereferenced a null pointer
    handled,         \* the last handler call: event, state it ran in, packet,
                     \* and whether it logged the event as unexpected
    peer             \* the endpoint at the other end and the segments in
                     \* flight between the two (two-endpoint runs only)

vars ==
    <<tcp_state, tcp_data, pending_events, sent, updates, ret, fault, handled,
      peer>>

\* a connection driven on its own has no modelled peer
NoPeer == [none |-> TRUE]

NoCall == [type |-> "none", st |-> "none", pkt |-> NoPkt, warning |-> FALSE]

\* tcp_data_init: the packet list starts empty; the other fields are written
\* by the handlers before they are read
tcp_data_init ==
    [ISS |-> <<0, 0>>, IRS |-> <<0, 0>>, SND_UNA |-> <<0, 0>>,
     SND_NXT |-> <<0, 0>>, SND_WND |-> 0, RCV_NXT |-> <<0, 0>>, RCV_WND |-> 0,
     pending_packets |-> <<>>,
     send |-> [capacity |-> BufferSize, used |-> 0],
     recv |-> [capacity |-> BufferSize, used |-> 0]]

\* the context a handler call works on: the entry, the value rand() returns
\* in this call, and what the call has emitted and done so far
Context(st, data, r) ==
    [state |-> st, data |-> data, rand |-> r, sent |-> <<>>, updates |-> <<>>,
     fault |-> FALSE, pkt |-> NoPkt, warning |-> FALSE]

\* chilog(WARNING, "In ... state, received unexpected event.")
chilog_WARNING(c) == [c EXCEPT !.warning = TRUE]

\* ------------------------------------------------------------------------
\* Packet builders
\* ------------------------------------------------------------------------
\* ACK_PACKET taking its sequence number from ISS, as SYN_ACK_PACKET does
ACK_PACKET_seq_ISS(data) ==
    [EmptyPacket EXCEPT !.ack = 1,
                        !.seq = Htonl(data.ISS),
                        !.ack_seq = Htonl(data.RCV_NXT),
                        !.win = Htons(data.RCV_WND)]

ACK_PACKET(data) ==
    [EmptyPacket EXCEPT !.ack = 1,
                        !.seq = Htonl(data.SND_NXT),
                        !.ack_seq = Htonl(data.RCV_NXT),
                        !.win = Htons(data.RCV_WND)]

\* SYN_ACK_PACKET taking its sequence number from SND_NXT, as ACK_PACKET does
SYN_ACK_PACKET_seq_SND_NXT(data) ==
    [EmptyPacket EXCEPT !.syn = 1,
                        !.ack = 1,
                        !.seq = Htonl(data.SND_NXT),
                        !.ack_seq = Htonl(data.RCV_NXT),
                        !.win = Htons(data.RCV_WND)]

SYN_ACK_PACKET(data) ==
    [EmptyPacket EXCEPT !.syn = 1,
                        !.ack = 1,
                        !.seq = Htonl(data.ISS),
                        !.ack_seq = Htonl(data.RCV_NXT),
                        !.win = Htons(data.RCV_WND)]

\* the SYN built in the CLOSED handler
SYN_PACKET(data) ==
    [EmptyPacket EXCEPT !.syn = 1,
                        !.seq = Htonl(data.ISS),
                        !.win = Htons(data.RCV_WND)]

\* ------------------------------------------------------------------------
\* handle_PACKET_ARRIVAL: the cases of its switch
\* ------------------------------------------------------------------------
arrival_LISTEN(c, packet_rcvd) ==
    IF packet_rcvd.syn = 1
    THEN LET d1 == [c.data EXCEPT !.RCV_NXT = Add1(SEG_SEQ(packet_rcvd)),
                                  !.IRS = SEG_SEQ(packet_rcvd),
                                  !.ISS = RandISS(c.rand),
                                  !.RCV_WND = circular_buffer_available(c.data.recv)]
             c1 == chitcpd_send_tcp_packet([c EXCEPT !.data = d1],
                                           SYN_ACK_PACKET(d1))
             d2 == [d1 EXCEPT !.SND_NXT = Add1(d1.ISS),
                              !.SND_UNA = d1.ISS,
                              !.SND_WND = SEG_WND(packet_rcvd)]
         IN  chitcpd_update_tcp_state([c1 EXCEPT !.data = d2], "SYN_RCVD")
    ELSE c

\* arrival_SYN_SENT without the test SEG.ACK <= ISS
arrival_SYN_SENT_no_lower_test(c, packet_rcvd) ==
    IF packet_rcvd.ack = 1
    THEN IF ULt(c.data.SND_NXT, SEG_ACK(packet_rcvd))
         THEN c
         ELSE IF /\ ULe(c.data.SND_UNA, SEG_ACK(packet_rcvd))
                 /\ ULe(SEG_ACK(packet_rcvd), c.data.SND_NXT)
                 /\ packet_rcvd.syn = 1
              THEN LET d1 == [c.data EXCEPT
                                  !.RCV_NXT = Add1(SEG_SEQ(packet_rcvd)),
                                  !.IRS = SEG_SEQ(packet_rcvd),
                                  !.SND_UNA = SEG_ACK(packet_rcvd),
                                  !.SND_WND = SEG_WND(packet_rcvd)]
                       c1 == [c EXCEPT !.data = d1]
                   IN  IF ULt(d1.ISS, d1.SND_UNA)
                       THEN chitcpd_update_tcp_state(
                                chitcpd_send_tcp_packet(c1, ACK_PACKET(d1)),
                                "ESTABLISHED")
                       ELSE chitcpd_update_tcp_state(
                                chitcpd_send_tcp_packet(c1, SYN_ACK_PACKET(d1)),
                                "SYN_RCVD")
              ELSE c
    ELSE c

\* arrival_SYN_SENT taking the SYN as acknowledged only when SND_UNA > SND_NXT
arrival_SYN_SENT_acked_past_SND_NXT(c, packet_rcvd) ==
    IF packet_rcvd.ack = 1
    THEN IF \/ ULe(SEG_ACK(packet_rcvd), c.data.ISS)
            \/ ULt(c.data.SND_NXT, SEG_ACK(packet_rcvd))
         THEN c
         ELSE IF /\ ULe(c.data.SND_UNA, SEG_ACK(packet_rcvd))
                 /\ ULe(SEG_ACK(packet_rcvd), c.data.SND_NXT)
                 /\ packet_rcvd.syn = 1
              THEN LET d1 == [c.data EXCEPT
                                  !.RCV_NXT = Add1(SEG_SEQ(packet_rcvd)),
                                  !.IRS = SEG_SEQ(packet_rcvd),
                                  !.SND_UNA = SEG_ACK(packet_rcvd),
                                  !.SND_WND = SEG_WND(packet_rcvd)]
                       c1 == [c EXCEPT !.data = d1]
                   IN  IF ULt(d1.SND_NXT, d1.SND_UNA)
                       THEN chitcpd_update_tcp_state(
                                chitcpd_send_tcp_packet(c1, ACK_PACKET(d1)),
                                "ESTABLISHED")
                       ELSE chitcpd_update_tcp_state(
                                chitcpd_send_tcp_packet(c1, SYN_ACK_PACKET(d1)),
                                "SYN_RCVD")
              ELSE c
    ELSE c

arrival_SYN_SENT(c, packet_rcvd) ==
    IF packet_rcvd.ack = 1
    THEN IF \/ ULe(SEG_ACK(packet_rcvd), c.data.ISS)
            \/ ULt(c.data.SND_NXT, SEG_ACK(packet_rcvd))
         THEN c
         ELSE IF /\ ULe(c.data.SND_UNA, SEG_ACK(packet_rcvd))
                 /\ ULe(SEG_ACK(packet_rcvd), c.data.SND_NXT)
                 /\ packet_rcvd.syn = 1
              THEN LET d1 == [c.data EXCEPT
                                  !.RCV_NXT = Add1(SEG_SEQ(packet_rcvd)),
                                  !.IRS = SEG_SEQ(packet_rcvd),
                                  !.SND_UNA = SEG_ACK(packet_rcvd),
                                  !.SND_WND = SEG_WND(packet_rcvd)]
                       c1 == [c EXCEPT !.data = d1]
                   IN  IF ULt(d1.ISS, d1.SND_UNA)
                       THEN chitcpd_update_tcp_state(
                                chitcpd_send_tcp_packet(c1, ACK_PACKET(d1)),
                                "ESTABLISHED")
                       ELSE chitcpd_update_tcp_state(
                                chitcpd_send_tcp_packet(c1, SYN_ACK_PACKET(d1)),
                                "SYN_RCVD")
              ELSE c
    ELSE c

\* arrival_SYN_RCVD without the test SEG.ACK <= SND_NXT
arrival_SYN_RCVD_no_upper_test(c, packet_rcvd) ==
    IF /\ packet_rcvd.ack = 1
       /\ ULe(c.data.SND_UNA, SEG_ACK(packet_rcvd))
    THEN chitcpd_update_tcp_state(
             [c EXCEPT !.data.RCV_NXT = Add1(SEG_SEQ(packet_rcvd)),
                       !.data.SND_UNA = SEG_ACK(packet_rcvd),
                       !.data.SND_WND = SEG_WND(packet_rcvd)],
             "ESTABLISHED")
    ELSE c

\* arrival_SYN_RCVD falling back to LISTEN on an unacceptable ACK
arrival_SYN_RCVD_back_to_LISTEN(c, packet_rcvd) ==
    IF packet_rcvd.ack = 1
    THEN IF /\ ULe(c.data.SND_UNA, SEG_ACK(packet_rcvd))
            /\ ULe(SEG_ACK(packet_rcvd), c.data.SND_NXT)
         THEN chitcpd_update_tcp_state(
                  [c EXCEPT !.data.RCV_NXT = Add1(SEG_SEQ(packet_rcvd)),
                            !.data.SND_UNA = SEG_ACK(packet_rcvd),
                            !.data.SND_WND = SEG_WND(packet_rcvd)],
                  "ESTABLISHED")
         ELSE chitcpd_update_tcp_state(c, "LISTEN")
    ELSE c

\* arrival_SYN_RCVD with the lower test strict: SND_UNA < SEG.ACK
arrival_SYN_RCVD_strict_lower_test(c, packet_rcvd) ==
    IF /\ packet_rcvd.ack = 1
       /\ ULt(c.data.SND_UNA, SEG_ACK(packet_rcvd))
       /\ ULe(SEG_ACK(packet_rcvd), c.data.SND_NXT)
    THEN chitcpd_update_tcp_state(
             [c EXCEPT !.data.RCV_NXT = Add1(SEG_SEQ(packet_rcvd)),
                       !.data.SND_UNA = SEG_ACK(packet_rcvd),
                       !.data.SND_WND = SEG_WND(packet_rcvd)],
             "ESTABLISHED")
    ELSE c

arrival_SYN_RCVD(c, packet_rcvd) ==
    IF /\ packet_rcvd.ack = 1
       /\ ULe(c.data.SND_UNA, SEG_ACK(packet_rcvd))
       /\ ULe(SEG_ACK(packet_rcvd), c.data.SND_NXT)
    THEN chitcpd_update_tcp_state(
             [c EXCEPT !.data.RCV_NXT = Add1(SEG_SEQ(packet_rcvd)),
                       !.data.SND_UNA = SEG_ACK(packet_rcvd),
                       !.data.SND_WND = SEG_WND(packet_rcvd)],
             "ESTABLISHED")
    ELSE c

\* the head of pending_packets is read and popped; reading the head of an
\* empty list dereferences a null pointer
handle_PACKET_ARRIVAL(c, state) ==
    IF c.data.pending_packets = <<>>
    THEN [c EXCEPT !.fault = TRUE]
    ELSE LET packet_rcvd == Head(c.data.pending_packets)
             c1 == [c EXCEPT !.data.pending_packets = Tail(@),
                             !.pkt = packet_rcvd]
         IN  CASE state = "LISTEN" -> arrival_LISTEN(c1, packet_rcvd)
               [] state = "SYN_SENT" -> arrival_SYN_SENT(c1, packet_rcvd)
               [] state = "SYN_RCVD" -> arrival_SYN_RCVD(c1, packet_rcvd)
               [] OTHER -> c1

\* ------------------------------------------------------------------------
\* The state handlers
\* ------------------------------------------------------------------------
chitcpd_tcp_state_handle_CLOSED(c, event) ==
    IF event = "APPLICATION_CONNECT"
    THEN LET iss == RandISS(c.rand)
             d1 == [c.data EXCEPT !.ISS = iss,
                                  !.SND_UNA = iss,
                                  !.SND_NXT = Add1(iss),
                                  !.RCV_WND = circular_buffer_available(c.data.recv)]
         IN  chitcpd_update_tcp_state(
                 chitcpd_send_tcp_packet([c EXCEPT !.data = d1], SYN_PACKET(d1)),
                 "SYN_SENT")
    ELSE IF event = "CLEANUP"
    THEN c
    ELSE chilog_WARNING(c)

chitcpd_tcp_state_handle_LISTEN(c, event) ==
    IF event = "PACKET_ARRIVAL"
    THEN handle_PACKET_ARRIVAL(c, "LISTEN")
    ELSE chilog_WARNING(c)

chitcpd_tcp_state_handle_SYN_RCVD(c, event) ==
    IF event = "PACKET_ARRIVAL"
    THEN handle_PACKET_ARRIVAL(c, "SYN_RCVD")
    ELSE IF event = "TIMEOUT_RTX"
    THEN c
    ELSE chilog_WARNING(c)

chitcpd_tcp_state_handle_SYN_SENT(c, event) ==
    IF event = "PACKET_ARRIVAL"
    THEN handle_PACKET_ARRIVAL(c, "SYN_SENT")
    ELSE IF event = "TIMEOUT_RTX"
    THEN c
    ELSE chilog_WARNING(c)

\* the branches these handlers name are empty; every other event is logged
\* as unexpected
chitcpd_tcp_state_handle_ESTABLISHED(c, event) ==
    IF event \in {"APPLICATION_SEND", "PACKET_ARRIVAL", "APPLICATION_RECEIVE",
                  "APPLICATION_CLOSE", "TIMEOUT_RTX", "TIMEOUT_PST"}
    THEN c
    ELSE chilog_WARNING(c)

chitcpd_tcp_state_handle_FIN_WAIT_1(c, event) ==
    IF event \in {"PACKET_ARRIVAL", "APPLICATION_RECEIVE", "TIMEOUT_RTX",
                  "TIMEOUT_PST"}
    THEN c
    ELSE chilog_WARNING(c)

chitcpd_tcp_state_handle_FIN_WAIT_2(c, event) ==
    IF event \in {"PACKET_ARRIVAL", "APPLICATION_RECEIVE", "TIMEOUT_RTX"}
    THEN c
    ELSE chilog_WARNING(c)

chitcpd_tcp_state_handle_CLOSE_WAIT(c, event) ==
    IF event \in {"APPLICATION_CLOSE", "PACKET_ARRIVAL", "TIMEOUT_RTX",
                  "TIMEOUT_PST"}
    THEN c
    ELSE chilog_WARNING(c)

chitcpd_tcp_state_handle_CLOSING(c, event) ==
    IF event \in {"PACKET_ARRIVAL", "TIMEOUT_RTX", "TIMEOUT_PST"}
    THEN c
    ELSE chilog_WARNING(c)

\* the TIME_WAIT handler dropping the packet of a PACKET_ARRIVAL
chitcpd_tcp_state_handle_TIME_WAIT_drops_packet(c, event) ==
    IF event = "PACKET_ARRIVAL"
    THEN handle_PACKET_ARRIVAL(chilog_WARNING(c), "TIME_WAIT")
    ELSE chilog_WARNING(c)

\* "Running handler for TIME_WAIT. This should not happen."
chitcpd_tcp_state_handle_TIME_WAIT(c, event) == chilog_WARNING(c)

chitcpd_tcp_state_handle_LAST_ACK(c, event) ==
    IF event \in {"PACKET_ARRIVAL", "TIMEOUT_RTX", "TIMEOUT_PST"}
    THEN c
    ELSE chilog_WARNING(c)

\* the dispatch on the connection's current state
handle_event(c, event) ==
    CASE c.state = "CLOSED" -> chitcpd_tcp_state_handle_CLOSED(c, event)
      [] c.state = "LISTEN" -> chitcpd_tcp_state_handle_LISTEN(c, event)
      [] c.state = "SYN_RCVD" -> chitcpd_tcp_state_handle_SYN_RCVD(c, event)
      [] c.state = "SYN_SENT" -> chitcpd_tcp_state_handle_SYN_SENT(c, event)
      [] c.state = "ESTABLISHED" -> chitcpd_tcp_state_handle_ESTABLISHED(c, event)
      [] c.state = "FIN_WAIT_1" -> chitcpd_tcp_state_handle_FIN_WAIT_1(c, event)
      [] c.state = "FIN_WAIT_2" -> chitcpd_tcp_state_handle_FIN_WAIT_2(c, event)
      [] c.state = "CLOSE_WAIT" -> chitcpd_tcp_state_handle_CLOSE_WAIT(c, event)
      [] c.state = "CLOSING" -> chitcpd_tcp_state_handle_CLOSING(c, event)
      [] c.state = "TIME_WAIT" -> chitcpd_tcp_state_handle_TIME_WAIT(c, event)
      [] c.state = "LAST_ACK" -> chitcpd_tcp_state_handle_LAST_ACK(c, event)

\* ------------------------------------------------------------------------
\* Initial states and actions
\* ------------------------------------------------------------------------
\* a connection starts CLOSED (active socket) or LISTEN (child of a
\* listening socket)
Init ==
    /\ tcp_state \in {"CLOSED", "LISTEN"}
    /\ tcp_data = tcp_data_init
    /\ pending_events = <<>>
    /\ sent = <<>>
    /\ updates = <<>>
    /\ ret = "CHITCP_OK"
    /\ fault = FALSE
    /\ handled = NoCall
    /\ peer = NoPeer

\* the application or a timer pushes an event; socket_send on a connected
\* socket first puts a chunk of bytes in the (empty) send buffer
PushEvent ==
    /\ ~fault
    /\ Len(pending_events) < MaxEvents
    /\ \E ev \in AppEvents :
        /\ pending_events' = Append(pending_events, ev)
        /\ tcp_data' =
               IF /\ ev = "APPLICATION_SEND"
                  /\ tcp_state = "ESTABLISHED"
                  /\ tcp_data.send.used = 0
               THEN [tcp_data EXCEPT !.send.used = CHOOSE n \in SendSizes : TRUE]
               ELSE tcp_data
    /\ UNCHANGED <<tcp_state, sent, updates, ret, fault, handled, peer>>

\* the demultiplexer appends an arriving segment to pending_packets and
\* pushes PACKET_ARRIVAL
Demux ==
    /\ ~fault
    /\ Len(pending_events) < MaxEvents
    /\ Len(tcp_data.pending_packets) < MaxPending
    /\ \E seg \in ArrivingSegments :
        /\ tcp_data' = [tcp_data EXCEPT !.pending_packets = Append(@, seg)]
        /\ pending_events' = Append(pending_events, "PACKET_ARRIVAL")
    /\ UNCHANGED <<tcp_state, sent, updates, ret, fault, handled, peer>>

\* what rand() can return in a handler call: the handlers call it only to
\* choose an ISS, on APPLICATION_CONNECT in CLOSED and on PACKET_ARRIVAL in
\* LISTEN; any other call is one outcome whatever rand() would return
RandDraws(st, event) ==
    IF \/ st = "CLOSED" /\ event = "APPLICATION_CONNECT"
       \/ st = "LISTEN" /\ event = "PACKET_ARRIVAL"
    THEN RandVals
    ELSE {CHOOSE r \in RandVals : TRUE}

\* the worker takes the next event and runs the handler of the current state
WorkerStep ==
    /\ ~fault
    /\ pending_events # <<>>
    /\ \E r \in RandDraws(tcp_state, Head(pending_events)) :
        LET event == Head(pending_events)
            c == handle_event(Context(tcp_state, tcp_data, r), event)
        IN  /\ tcp_state' = c.state
            /\ tcp_data' = c.data
            /\ sent' = c.sent
            /\ updates' = c.updates
            /\ fault' = c.fault
            /\ ret' = "CHITCP_OK"
            /\ handled' = [type |-> event, st |-> tcp_state, pkt |-> c.pkt,
                           warning |-> c.warning]
            /\ pending_events' = Tail(pending_events)

Worker == WorkerStep /\ UNCHANGED peer

Next == PushEvent \/ Demux \/ Worker

Spec == Init /\ [][Next]_vars

\* the handlers run on whatever state the entry holds: every value of the
\* state enumeration, with a freshly initialised tcp_data
InitAnyState ==
    /\ tcp_state \in States
    /\ tcp_data = tcp_data_init
    /\ pending_events = <<>>
    /\ sent = <<>>
    /\ updates = <<>>
    /\ ret = "CHITCP_OK"
    /\ fault = FALSE
    /\ handled = NoCall
    /\ peer = NoPeer

SpecHandlers == InitAnyState /\ [][Next]_vars

\* a producer pushes PACKET_ARRIVAL without having appended a packet, so the
\* handler may be invoked with nothing to retrieve
PushPacketArrival ==
    /\ ~fault
    /\ Len(pending_events) < MaxEvents
    /\ pending_events' = Append(pending_events, "PACKET_ARRIVAL")
    /\ UNCHANGED <<tcp_state, tcp_data, sent, updates, ret, fault, handled, peer>>

NextUnpaired == PushEvent \/ Demux \/ Worker \/ PushPacketArrival

SpecUnpaired == Init /\ [][NextUnpaired]_vars

\* acknowledgment numbers spread over the 32-bit range: around the ISS
\* values 1 and 1000, around 2^31 and ISS + 2^31 (where the signed reading
\* of a difference changes sign), 2^16 + 2, and 2^32 - 1
AckProbes ==
    {<<0, 0>>, ToU32(1), ToU32(2), ToU32(3), ToU32(1000), ToU32(1001),
     ToU32(1002), <<1, 2>>, <<Half \div 2, 0>>, <<Half \div 2, 1>>,
     <<Half \div 2, 2>>, <<Half \div 2, 1001>>, <<Half - 1, Half - 1>>}

\* a SYN to open passively, and SYN-ACK and ACK segments carrying the probes
ProbeSegments ==
    {WireSegment(1, 0, s, <<0, 0>>, w) : s \in {ToU32(50)}, w \in WndVals}
    \cup
    {WireSegment(1, 1, ToU32(50), a, w) : a \in AckProbes, w \in WndVals}
    \cup
    {WireSegment(0, 1, AckSeq, a, w) : a \in AckProbes, w \in WndVals}

\* the application calls connect
PushConnect ==
    /\ ~fault
    /\ Len(pending_events) < MaxEvents
    /\ pending_events' = Append(pending_events, "APPLICATION_CONNECT")
    /\ UNCHANGED <<tcp_state, tcp_data, sent, updates, ret, fault, handled, peer>>

\* the demultiplexer delivers one of the probe segments
DemuxProbe ==
    /\ ~fault
    /\ Len(pending_events) < MaxEvents
    /\ Len(tcp_data.pending_packets) < MaxPending
    /\ \E seg \in ProbeSegments :
        /\ tcp_data' = [tcp_data EXCEPT !.pending_packets = Append(@, seg)]
        /\ pending_events' = Append(pending_events, "PACKET_ARRIVAL")
    /\ UNCHANGED <<tcp_state, sent, updates, ret, fault, handled, peer>>

NextAck == PushConnect \/ DemuxProbe \/ Worker

SpecAck == Init /\ [][NextAck]_vars

\* ------------------------------------------------------------------------
\* Two endpoints running the engine, joined by a reliable in-order channel
\* in each direction: one endpoint opens actively, the other listens
\* ------------------------------------------------------------------------
InitPair ==
    /\ tcp_state \in {"CLOSED", "LISTEN"}
    /\ tcp_data = tcp_data_init
    /\ pending_events = <<>>
    /\ sent = <<>>
    /\ updates = <<>>
    /\ ret = "CHITCP_OK"
    /\ fault = FALSE
    /\ handled = NoCall
    /\ peer = [state |-> IF tcp_state = "CLOSED" THEN "LISTEN" ELSE "CLOSED",
               data |-> tcp_data_init,
               pending_events |-> <<>>, fault |-> FALSE,
               to_peer |-> <<>>, to_local |-> <<>>]

\* the application of the endpoint that starts CLOSED calls connect, once
LocalConnect ==
    /\ tcp_state = "CLOSED"
    /\ pending_events = <<>>
    /\ handled = NoCall
    /\ pending_events' = Append(pending_events, "APPLICATION_CONNECT")
    /\ UNCHANGED <<tcp_state, tcp_data, sent, updates, ret, fault, handled, peer>>

PeerConnect ==
    /\ peer.state = "CLOSED"
    /\ peer.pending_events = <<>>
    /\ peer.to_peer = <<>>
    /\ peer' = [peer EXCEPT !.pending_events = Append(@, "APPLICATION_CONNECT")]
    /\ UNCHANGED <<tcp_state, tcp_data, pending_events, sent, updates, ret,
                   fault, handled>>

\* a retransmission timer fires at an endpoint that is in the handshake
LocalTimeout ==
    /\ ~fault
    /\ tcp_state \in {"SYN_SENT", "SYN_RCVD"}
    /\ Len(pending_events) < MaxEvents
    /\ pending_events' = Append(pending_events, "TIMEOUT_RTX")
    /\ UNCHANGED <<tcp_state, tcp_data, sent, updates, ret, fault, handled, peer>>

PeerTimeout ==
    /\ ~peer.fault
    /\ peer.state \in {"SYN_SENT", "SYN_RCVD"}
    /\ Len(peer.pending_events) < MaxEvents
    /\ peer' = [peer EXCEPT !.pending_events = Append(@, "TIMEOUT_RTX")]
    /\ UNCHANGED <<tcp_state, tcp_data, pending_events, sent, updates, ret,
                   fault, handled>>

\* the local worker handles an event; what it emits goes on the channel
LocalWorker ==
    /\ WorkerStep
    /\ peer' = [peer EXCEPT !.to_peer = @ \o sent']

\* the peer's worker does the same at the other end
PeerWorker ==
    /\ ~peer.fault
    /\ peer.pending_events # <<>>
    /\ \E r \in RandDraws(peer.state, Head(peer.pending_events)) :
        LET c == handle_event(Context(peer.state, peer.data, r),
                              Head(peer.pending_events))
        IN  peer' = [peer EXCEPT !.state = c.state,
                                 !.data = c.data,
                                 !.fault = c.fault,
                                 !.pending_events = Tail(@),
                                 !.to_local = @ \o c.sent]
    /\ UNCHANGED <<tcp_state, tcp_data, pending_events, sent, updates, ret,
                   fault, handled>>

\* the channel hands its oldest segment to the receiving daemon, whose
\* demultiplexer appends it to pending_packets and pushes PACKET_ARRIVAL
DeliverToPeer ==
    /\ peer.to_peer # <<>>
    /\ peer' = [peer EXCEPT
                    !.data.pending_packets = Append(@, Head(peer.to_peer)),
                    !.pending_events = Append(@, "PACKET_ARRIVAL"),
                    !.to_peer = Tail(@)]
    /\ UNCHANGED <<tcp_state, tcp_data, pending_events, sent, updates, ret,
                   fault, handled>>

DeliverToLocal ==
    /\ peer.to_local # <<>>
    /\ tcp_data' = [tcp_data EXCEPT
                        !.pending_packets = Append(@, Head(peer.to_local))]
    /\ pending_events' = Append(pending_events, "PACKET_ARRIVAL")
    /\ peer' = [peer EXCEPT !.to_local = Tail(@)]
    /\ UNCHANGED <<tcp_state, sent, updates, ret, fault, handled>>

NextPair ==
    \/ LocalConnect
    \/ PeerConnect
    \/ LocalTimeout
    \/ PeerTimeout
    \/ LocalWorker
    \/ PeerWorker
    \/ DeliverToPeer
    \/ DeliverToLocal

SpecPair == InitPair /\ [][NextPair]_vars

\* ------------------------------------------------------------------------
\* Vocabulary of the properties
\* ------------------------------------------------------------------------
\* (b - a) mod 2^32
USub(b, a) ==
    LET borrow == IF b[2] < a[2] THEN 1 ELSE 0
    IN  <<(b[1] - a[1] - borrow) % Half, (b[2] - a[2]) % Half>>

\* a <seq b: (b - a) mod 2^32 read as a signed 32-bit value is positive
SeqLt(a, b) == USub(b, a) # <<0, 0>> /\ USub(b, a)[1] < Half \div 2
SeqLe(a, b) == a = b \/ SeqLt(a, b)

\* this step is the worker handling the event at the head of the queue
WorkerHandles(event) ==
    /\ pending_events # <<>>
    /\ Head(pending_events) = event
    /\ pending_events' = Tail(pending_events)

\* the last handler call handled this event in this state
Handled(event, st) == handled.type = event /\ handled.st = st

\* the last handler call popped and examined a packet with these flags
Examined(syn, ack) ==
    /\ handled.pkt # NoPkt
    /\ handled.pkt.syn = syn
    /\ handled.pkt.ack = ack

\* the shapes of emitted segments
IsSyn(p) == p.syn = 1 /\ p.ack = 0 /\ p.fin = 0 /\ p.len = 0
IsSynAck(p) == p.syn = 1 /\ p.ack = 1 /\ p.fin = 0 /\ p.len = 0
IsAck(p) == p.syn = 0 /\ p.ack = 1 /\ p.fin = 0 /\ p.len = 0

\* ------------------------------------------------------------------------
\* C1: active open. Handling APPLICATION_CONNECT in CLOSED emits exactly one
\* SYN with seq = ISS and moves to SYN_SENT; handling in SYN_SENT the arrival
\* of a SYN-ACK with ack = ISS + 1 and seq = X emits exactly one ACK with
\* seq = ISS + 1 and ack = X + 1 and moves to ESTABLISHED.
\* ------------------------------------------------------------------------
C1_ActiveOpen ==
    /\ Handled("APPLICATION_CONNECT", "CLOSED") =>
           /\ tcp_state = "SYN_SENT"
           /\ Len(sent) = 1
           /\ IsSyn(sent[1])
           /\ SEG_SEQ(sent[1]) = tcp_data.ISS
    /\ ( /\ Handled("PACKET_ARRIVAL", "SYN_SENT")
         /\ Examined(1, 1)
         /\ SEG_ACK(handled.pkt) = Add1(tcp_data.ISS) ) =>
           /\ tcp_state = "ESTABLISHED"
           /\ Len(sent) = 1
           /\ IsAck(sent[1])
           /\ SEG_SEQ(sent[1]) = Add1(tcp_data.ISS)
           /\ SEG_ACK(sent[1]) = Add1(SEG_SEQ(handled.pkt))

\* a SYN-ACK with ack = ISS + 1 whose sequence number is 2^32 - 1 has been
\* handled in SYN_SENT
C1_Witness ==
    /\ Handled("PACKET_ARRIVAL", "SYN_SENT")
    /\ Examined(1, 1)
    /\ SEG_ACK(handled.pkt) = Add1(tcp_data.ISS)
    /\ SEG_SEQ(handled.pkt) = <<Half - 1, Half - 1>>
    /\ tcp_state = "ESTABLISHED"

\* ------------------------------------------------------------------------
\* C2: passive open. Handling in LISTEN the arrival of a SYN (no ACK) with
\* seq = S emits a SYN-ACK with seq = ISS and ack = S + 1, sets IRS = S,
\* RCV_NXT = S + 1, SND_UNA = ISS, SND_NXT = ISS + 1, SND_WND = SEG.WND and
\* moves to SYN_RCVD; handling in SYN_RCVD the arrival of an ACK with
\* ack = ISS + 1 moves to ESTABLISHED.
\* ------------------------------------------------------------------------
C2_PassiveOpen ==
    /\ (Handled("PACKET_ARRIVAL", "LISTEN") /\ Examined(1, 0)) =>
           /\ tcp_state = "SYN_RCVD"
           /\ Len(sent) = 1
           /\ IsSynAck(sent[1])
           /\ SEG_SEQ(sent[1]) = tcp_data.ISS
           /\ SEG_ACK(sent[1]) = Add1(SEG_SEQ(handled.pkt))
           /\ tcp_data.IRS = SEG_SEQ(handled.pkt)
           /\ tcp_data.RCV_NXT = Add1(SEG_SEQ(handled.pkt))
           /\ tcp_data.SND_UNA = tcp_data.ISS
           /\ tcp_data.SND_NXT = Add1(tcp_data.ISS)
           /\ tcp_data.SND_WND = SEG_WND(handled.pkt)
    /\ ( /\ Handled("PACKET_ARRIVAL", "SYN_RCVD")
         /\ handled.pkt # NoPkt
         /\ handled.pkt.ack = 1
         /\ SEG_ACK(handled.pkt) = Add1(tcp_data.ISS) ) =>
           tcp_state = "ESTABLISHED"

\* the ACK of the SYN-ACK has been handled in SYN_RCVD
C2_Witness ==
    /\ Handled("PACKET_ARRIVAL", "SYN_RCVD")
    /\ Examined(0, 1)
    /\ SEG_ACK(handled.pkt) = Add1(tcp_data.ISS)
    /\ tcp_state = "ESTABLISHED"

\* ------------------------------------------------------------------------
\* C3: once the handshake has begun (the state is neither CLOSED nor
\* LISTEN), SND_UNA <= SND_NXT in the wrapping order of sequence numbers.
\* ------------------------------------------------------------------------
C3_SndUnaLeSndNxt ==
    tcp_state \notin {"CLOSED", "LISTEN"} =>
        SeqLe(tcp_data.SND_UNA, tcp_data.SND_NXT)

\* an acknowledgment has been accepted and SND_UNA has caught up with SND_NXT
C3_Witness ==
    /\ tcp_state = "ESTABLISHED"
    /\ handled.pkt # NoPkt
    /\ tcp_data.SND_UNA = SEG_ACK(handled.pkt)
    /\ tcp_data.SND_UNA = tcp_data.SND_NXT
    /\ tcp_data.SND_UNA # <<0, 0>>

\* ------------------------------------------------------------------------
\* C4: once RCV_NXT has been set from the peer's SYN, no step moves RCV_NXT
\* backwards in the wrapping order.
\* ------------------------------------------------------------------------
C4_RcvNxtOnlyAdvances ==
    [][(tcp_state \in {"SYN_RCVD", "ESTABLISHED"}) =>
           SeqLe(tcp_data.RCV_NXT, (tcp_data').RCV_NXT)]_vars

\* ------------------------------------------------------------------------
\* C5: a handler call performs at most one state transition, and every
\* change of state is an edge of the TCP state graph.
\* ------------------------------------------------------------------------
Edges ==
    {<<"CLOSED", "SYN_SENT">>, <<"LISTEN", "SYN_RCVD">>,
     <<"SYN_SENT", "ESTABLISHED">>, <<"SYN_SENT", "SYN_RCVD">>,
     <<"SYN_RCVD", "ESTABLISHED">>, <<"ESTABLISHED", "FIN_WAIT_1">>,
     <<"ESTABLISHED", "CLOSE_WAIT">>, <<"FIN_WAIT_1", "FIN_WAIT_2">>,
     <<"FIN_WAIT_1", "CLOSING">>, <<"FIN_WAIT_1", "TIME_WAIT">>,
     <<"FIN_WAIT_2", "TIME_WAIT">>, <<"CLOSE_WAIT", "LAST_ACK">>,
     <<"CLOSING", "TIME_WAIT">>, <<"LAST_ACK", "CLOSED">>,
     <<"TIME_WAIT", "CLOSED">>, <<"SYN_SENT", "CLOSED">>,
     <<"SYN_RCVD", "CLOSED">>}

C5_TransitionsFollowGraph ==
    [][/\ (tcp_state' # tcp_state) => (<<tcp_state, tcp_state'>> \in Edges)
       /\ Len(updates') <= 1
       /\ (updates' # <<>>) => (tcp_state' = updates'[1])]_vars

\* a handler call has moved the connection from SYN_SENT to ESTABLISHED
C5_Witness ==
    /\ Handled("PACKET_ARRIVAL", "SYN_SENT")
    /\ updates = <<"ESTABLISHED">>
    /\ tcp_state = "ESTABLISHED"

\* ------------------------------------------------------------------------
\* C6: an event with no defined transition in the current state is ignored:
\* the handler returns success, leaves the state, the sequence variables,
\* the windows and the pending-packet queue unchanged and emits no segment.
\* ------------------------------------------------------------------------
NoDefinedTransition(st, event) ==
    \/ st = "TIME_WAIT"
    \/ event = "APPLICATION_CONNECT" /\ st # "CLOSED"
    \/ /\ event \in {"APPLICATION_SEND", "APPLICATION_RECEIVE", "APPLICATION_CLOSE"}
       /\ st \in {"CLOSED", "LISTEN", "SYN_SENT", "SYN_RCVD"}
    \/ event \in {"TIMEOUT_RTX", "TIMEOUT_PST"} /\ st \in {"CLOSED", "LISTEN"}
    \/ event = "TIMEOUT_PST" /\ st \in {"SYN_SENT", "SYN_RCVD"}
    \/ event = "PACKET_ARRIVAL" /\ st = "CLOSED"

C6_UnexpectedEventIgnored ==
    [][\A event \in Events :
           (WorkerHandles(event) /\ NoDefinedTransition(tcp_state, event)) =>
               /\ tcp_state' = tcp_state
               /\ tcp_data' = tcp_data
               /\ sent' = <<>>
               /\ ret' = "CHITCP_OK"
               /\ fault' = FALSE]_vars

\* a PACKET_ARRIVAL has been handled in TIME_WAIT with its packet queued
C6_Witness ==
    /\ Handled("PACKET_ARRIVAL", "TIME_WAIT")
    /\ tcp_data.pending_packets # <<>>
    /\ tcp_state = "TIME_WAIT"

\* ------------------------------------------------------------------------
\* C7: handling the arrival of an exact duplicate of a segment that has
\* already been processed and acknowledged leaves RCV_NXT, SND_UNA and the
\* state as they were.  Stated for the duplicate that directly follows the
\* segment it repeats: the last handler call examined that segment, moved
\* the connection on and emitted a segment acknowledging it.
\* ------------------------------------------------------------------------
C7_DuplicateIdempotent ==
    [][( /\ WorkerHandles("PACKET_ARRIVAL")
         /\ handled.pkt # NoPkt
         /\ updates # <<>>
         /\ sent # <<>>
         /\ tcp_data.pending_packets # <<>>
         /\ Head(tcp_data.pending_packets) = handled.pkt ) =>
           /\ tcp_state' = tcp_state
           /\ (tcp_data').RCV_NXT = tcp_data.RCV_NXT
           /\ (tcp_data').SND_UNA = tcp_data.SND_UNA]_vars

\* ------------------------------------------------------------------------
\* C8: on TIMEOUT_RTX in SYN_SENT or SYN_RCVD the unacknowledged SYN or
\* SYN-ACK is sent again with the same sequence number.
\* ------------------------------------------------------------------------
C8_HandshakeRetransmit ==
    /\ Handled("TIMEOUT_RTX", "SYN_SENT") =>
           /\ Len(sent) = 1
           /\ IsSyn(sent[1])
           /\ SEG_SEQ(sent[1]) = tcp_data.ISS
    /\ Handled("TIMEOUT_RTX", "SYN_RCVD") =>
           /\ Len(sent) = 1
           /\ IsSynAck(sent[1])
           /\ SEG_SEQ(sent[1]) = tcp_data.ISS

\* ------------------------------------------------------------------------
\* C9: in ESTABLISHED, handling APPLICATION_SEND with N bytes in the send
\* buffer and a peer window W < N emits exactly one data segment carrying
\* W bytes.
\* ------------------------------------------------------------------------
C9_SendWithinWindow ==
    ( /\ Handled("APPLICATION_SEND", "ESTABLISHED")
      /\ tcp_data.SND_WND > 0
      /\ tcp_data.SND_WND < tcp_data.send.used ) =>
        /\ Len(sent) = 1
        /\ sent[1].len = tcp_data.SND_WND

\* ------------------------------------------------------------------------
\* C10: from ESTABLISHED, APPLICATION_CLOSE emits a FIN and moves to
\* FIN_WAIT_1.
\* ------------------------------------------------------------------------
C10_CloseSendsFin ==
    Handled("APPLICATION_CLOSE", "ESTABLISHED") =>
        /\ tcp_state = "FIN_WAIT_1"
        /\ Len(sent) = 1
        /\ sent[1].fin = 1

\* ------------------------------------------------------------------------
\* C11: CLEANUP is legal in each of the eleven states: the handler call
\* does not log it as an unexpected event, returns success in the same step
\* whatever the pending-packet queue holds, and a CLEANUP handled directly
\* after a CLEANUP leaves the state and tcp_data as they were.
\* ------------------------------------------------------------------------
C11_CleanupAlwaysLegal ==
    [][WorkerHandles("CLEANUP") =>
           /\ ~(handled').warning
           /\ ret' = "CHITCP_OK"
           /\ fault' = FALSE
           /\ (handled.type = "CLEANUP") =>
                  (tcp_state' = tcp_state /\ tcp_data' = tcp_data)]_vars

\* ------------------------------------------------------------------------
\* C12: a PACKET_ARRIVAL handled in LISTEN, SYN_SENT or SYN_RCVD while
\* pending_packets is empty does not bring down the process.
\* ------------------------------------------------------------------------
C12_EmptyQueueSurvives ==
    ( /\ handled.type = "PACKET_ARRIVAL"
      /\ handled.st \in {"LISTEN", "SYN_SENT", "SYN_RCVD"}
      /\ handled.pkt = NoPkt ) =>
        ~fault

\* ------------------------------------------------------------------------
\* C13: in SYN_SENT a segment with ACK set whose acknowledgment number is
\* not in ISS < SEG.ACK <= SND_NXT is discarded: the state stays SYN_SENT,
\* IRS, RCV_NXT, SND_UNA, SND_NXT and SND_WND keep their values and no
\* segment is emitted, whatever its SYN flag, sequence number and window.
\* ------------------------------------------------------------------------
C13_IllegalAckDiscarded ==
    [][( /\ WorkerHandles("PACKET_ARRIVAL")
         /\ tcp_state = "SYN_SENT"
         /\ tcp_data.pending_packets # <<>>
         /\ Head(tcp_data.pending_packets).ack = 1
         /\ ~( /\ SeqLt(tcp_data.ISS, SEG_ACK(Head(tcp_data.pending_packets)))
               /\ SeqLe(SEG_ACK(Head(tcp_data.pending_packets)),
                        tcp_data.SND_NXT) ) ) =>
           /\ tcp_state' = "SYN_SENT"
           /\ (tcp_data').IRS = tcp_data.IRS
           /\ (tcp_data').RCV_NXT = tcp_data.RCV_NXT
           /\ (tcp_data').SND_UNA = tcp_data.SND_UNA
           /\ (tcp_data').SND_NXT = tcp_data.SND_NXT
           /\ (tcp_data').SND_WND = tcp_data.SND_WND
           /\ sent' = <<>>]_vars

\* a SYN-ACK acknowledging ISS itself (one short of the SYN) has been
\* handled in SYN_SENT and dropped
C13_Witness ==
    /\ Handled("PACKET_ARRIVAL", "SYN_SENT")
    /\ Examined(1, 1)
    /\ SEG_ACK(handled.pkt) = tcp_data.ISS
    /\ tcp_state = "SYN_SENT"
    /\ tcp_data.SND_UNA = tcp_data.ISS
    /\ sent = <<>>

\* ------------------------------------------------------------------------
\* C14: in LISTEN the passive-open step (sequence variables set, SYN-ACK
\* emitted, state SYN_RCVD) is performed exactly when the segment has SYN
\* set and ACK clear; for every other segment the state stays LISTEN, the
\* sequence variables keep the values they had (a connection is in LISTEN
\* only before any handler has written them) and nothing is emitted.
\* ------------------------------------------------------------------------
C14_ListenOnlyPlainSyn ==
    (Handled("PACKET_ARRIVAL", "LISTEN") /\ handled.pkt # NoPkt) =>
        IF Examined(1, 0)
        THEN /\ tcp_state = "SYN_RCVD"
             /\ Len(sent) = 1
             /\ IsSynAck(sent[1])
        ELSE /\ tcp_state = "LISTEN"
             /\ sent = <<>>
             /\ tcp_data.ISS = tcp_data_init.ISS
             /\ tcp_data.IRS = tcp_data_init.IRS
             /\ tcp_data.RCV_NXT = tcp_data_init.RCV_NXT
             /\ tcp_data.SND_UNA = tcp_data_init.SND_UNA
             /\ tcp_data.SND_NXT = tcp_data_init.SND_NXT
             /\ tcp_data.SND_WND = tcp_data_init.SND_WND

\* ------------------------------------------------------------------------
\* C15: simultaneous open. Handling in SYN_SENT the arrival of a segment
\* with SYN set and ACK clear sets IRS = SEG.SEQ and RCV_NXT = SEG.SEQ + 1,
\* emits a SYN-ACK with seq = ISS and ack = RCV_NXT and moves to SYN_RCVD
\* (the step two simultaneously opening endpoints need to get to
\* ESTABLISHED).
\* ------------------------------------------------------------------------
C15_SimultaneousOpen ==
    (Handled("PACKET_ARRIVAL", "SYN_SENT") /\ Examined(1, 0)) =>
        /\ tcp_state = "SYN_RCVD"
        /\ tcp_data.IRS = SEG_SEQ(handled.pkt)
        /\ tcp_data.RCV_NXT = Add1(SEG_SEQ(handled.pkt))
        /\ Len(sent) = 1
        /\ IsSynAck(sent[1])
        /\ SEG_SEQ(sent[1]) = tcp_data.ISS
        /\ SEG_ACK(sent[1]) = tcp_data.RCV_NXT

\* ------------------------------------------------------------------------
\* C16: for every ISS the engine chooses and every SEG.ACK, the decision
\* taken on an acknowledgment is the one wrapping comparison gives: in
\* SYN_SENT a SYN-ACK moves the connection on exactly when
\* ISS <seq SEG.ACK <=seq SND_NXT, and in SYN_RCVD an ACK-bearing segment
\* establishes the connection exactly when
\* SND_UNA <=seq SEG.ACK <=seq SND_NXT.
\* ------------------------------------------------------------------------
C16_AckDecisionIsWrapping ==
    [][( /\ WorkerHandles("PACKET_ARRIVAL")
         /\ tcp_data.pending_packets # <<>>
         /\ Head(tcp_data.pending_packets).ack = 1 ) =>
           LET seg == Head(tcp_data.pending_packets)
           IN  /\ (tcp_state = "SYN_SENT" /\ seg.syn = 1) =>
                      ( (tcp_state' # "SYN_SENT") <=>
                            ( /\ SeqLt(tcp_data.ISS, SEG_ACK(seg))
                              /\ SeqLe(SEG_ACK(seg), tcp_data.SND_NXT) ) )
               /\ (tcp_state = "SYN_RCVD") =>
                      ( (tcp_state' = "ESTABLISHED") <=>
                            ( /\ SeqLe(tcp_data.SND_UNA, SEG_ACK(seg))
                              /\ SeqLe(SEG_ACK(seg), tcp_data.SND_NXT) ) )]_vars

\* an acknowledgment number exactly 2^31 above the ISS 1 has been examined
\* in SYN_RCVD and refused
C16_Witness ==
    /\ Handled("PACKET_ARRIVAL", "SYN_RCVD")
    /\ handled.pkt # NoPkt
    /\ handled.pkt.ack = 1
    /\ tcp_data.ISS = ToU32(1)
    /\ SEG_ACK(handled.pkt) = <<Half \div 2, 1>>
    /\ tcp_state = "SYN_RCVD"

\* ------------------------------------------------------------------------
\* C17: a connection is in ESTABLISHED only with its own SYN acknowledged:
\* SND_UNA = ISS + 1 = SND_NXT (a connection starts CLOSED or LISTEN, so
\* ESTABLISHED is only reached through the handshake).
\* ------------------------------------------------------------------------
C17_EstablishedMeansSynAcked ==
    tcp_state = "ESTABLISHED" =>
        /\ tcp_data.SND_UNA = Add1(tcp_data.ISS)
        /\ tcp_data.SND_UNA = tcp_data.SND_NXT

\* ------------------------------------------------------------------------
\* C18: the handshake synchronizes the sequence spaces. When the endpoint
\* that opened actively and the one that listened are both in ESTABLISHED
\* and no segment is in flight or waiting to be handled, each endpoint's
\* RCV_NXT is the other's SND_NXT and each endpoint's IRS is the other's ISS.
\* ------------------------------------------------------------------------
C18_SequenceSpacesSynchronized ==
    ( /\ tcp_state = "ESTABLISHED"
      /\ peer.state = "ESTABLISHED"
      /\ peer.to_peer = <<>>
      /\ peer.to_local = <<>>
      /\ tcp_data.pending_packets = <<>>
      /\ peer.data.pending_packets = <<>> ) =>
        /\ tcp_data.RCV_NXT = peer.data.SND_NXT
        /\ peer.data.RCV_NXT = tcp_data.SND_NXT
        /\ tcp_data.IRS = peer.data.ISS
        /\ peer.data.IRS = tcp_data.ISS

\* ------------------------------------------------------------------------
\* C19: in SYN_SENT a segment with SYN and an acceptable ACK takes the
\* connection to ESTABLISHED with exactly an ACK emitted; no ACK-bearing
\* segment makes the handler emit a SYN-ACK or move to SYN_RCVD.
\* ------------------------------------------------------------------------
C19_SynAckEstablishes ==
    ( /\ Handled("PACKET_ARRIVAL", "SYN_SENT")
      /\ handled.pkt # NoPkt
      /\ handled.pkt.ack = 1 ) =>
        /\ tcp_state # "SYN_RCVD"
        /\ \A i \in DOMAIN sent : ~IsSynAck(sent[i])
        /\ ( /\ handled.pkt.syn = 1
             /\ SeqLt(tcp_data.ISS, SEG_ACK(handled.pkt))
             /\ SeqLe(SEG_ACK(handled.pkt), tcp_data.SND_NXT) ) =>
               /\ tcp_state = "ESTABLISHED"
               /\ Len(sent) = 1
               /\ IsAck(sent[1])

\* with the largest ISS (1000), a SYN-ACK acknowledging 1001 has been
\* handled in SYN_SENT and answered with an ACK
C19_Witness ==
    /\ Handled("PACKET_ARRIVAL", "SYN_SENT")
    /\ Examined(1, 1)
    /\ tcp_data.ISS = ToU32(1000)
    /\ SEG_ACK(handled.pkt) = ToU32(1001)
    /\ tcp_data.SND_UNA = ToU32(1001)
    /\ Len(sent) = 1
    /\ IsAck(sent[1])

\* ------------------------------------------------------------------------
\* C20: packets and PACKET_ARRIVAL events stay paired. Every handled
\* PACKET_ARRIVAL, in whatever state it is handled, has removed the head of
\* pending_packets; the number of queued packets equals the number of
\* PACKET_ARRIVAL events not yet handled; no handler finds the queue empty.
\* ------------------------------------------------------------------------
C20_PacketEventPairing ==
    /\ (handled.type = "PACKET_ARRIVAL") => (handled.pkt # NoPkt)
    /\ Len(tcp_data.pending_packets) =
           Cardinality({i \in DOMAIN pending_events :
                           pending_events[i] = "PACKET_ARRIVAL"})
    /\ ~fault

====
